---- MODULE Spec2Model ----
(***************************************************************************)
(* xsshh: static taint analysis of JavaScript for DOM XSS flows.           *)
(*                                                                         *)
(* The model follows src/scopes.ts (class Scope) and src/engine.ts (class  *)
(* Analyzer).  Syntax nodes are records tagged with their estree type;     *)
(* rendered code and identifiers are strings, so the sink patterns are     *)
(* matched on the rendered text as the regular expressions match it.       *)
(* Scopes live in an arena (a sequence of scope records, each with the     *)
(* index of its parent); the analyzer's current scope is an index into it. *)
(* The walk of a block is split at its two ends: entering (new scope,      *)
(* parameter binding) and leaving (restore the scope, register the         *)
(* profile); the statements between the two are walked one per step.       *)
(***************************************************************************)
EXTENDS Integers, Sequences, FiniteSets, TLC

VARIABLES
    arena,      \* every Scope object created by this Analyzer, in creation order
    scope,      \* Analyzer.scope: index of the current scope in the arena
    stack,      \* the pending blockStatement calls: prevScope, node, args
    findings,   \* what report() has printed so far, in order
    emitted,    \* the findings printed by the last step
    program,    \* Analyzer.program as walked so far: statements and block boundaries
    steps,      \* number of statements and block entries walked
    plain,      \* every statement so far was an assignment to an unmonitored path
    lastIndex,  \* RegExp.lastIndex of SINK_VARIABLE and SINK_FUNCTION (module state)
    runs,       \* finished runs of analyzers of this process: source and findings
    argv,       \* process.argv of the command line program
    cursor,     \* its loop variable i, counted from 1 (0: the program has not started)
    console,    \* what the command line program has printed, in order
    calls       \* its calls of readFileSync, parseScript and Analyzer.run, in order

analyzer == <<arena, scope, stack, findings, emitted, program, steps, plain>>

cli == <<argv, cursor, console, calls>>

vars == <<arena, scope, stack, findings, emitted, program, steps, plain, lastIndex, runs,
          argv, cursor, console, calls>>

-----------------------------------------------------------------------------
(* Bounds *)

MaxSteps == 4      \* statements and block entries walked by one analyzer
MaxDepth == 2      \* blocks open at once; scopes made below the root by direct calls
MaxCalls == 4      \* direct calls of Scope methods
MaxRuns == 2       \* analyzers run to the end by one process
MaxRunSteps == 2   \* statements of a source unit analyzed by such a process
MaxArgs == 4       \* file paths on the command line
MaxChainSteps == 5 \* statements and block entries of a program of functions calling functions

-----------------------------------------------------------------------------
(* Strings *)

EndsWith(s, w) ==
    /\ Len(s) >= Len(w)
    /\ SubSeq(s, Len(s) - Len(w) + 1, Len(s)) = w

\* the least index >= from at which w occurs in s, 0 when there is none
RECURSIVE IndexOf(_, _, _)
IndexOf(s, w, from) ==
    IF from + Len(w) - 1 > Len(s) THEN 0
    ELSE IF SubSeq(s, from, from + Len(w) - 1) = w THEN from
    ELSE IndexOf(s, w, from + 1)

Includes(seq, x) == \E k \in 1..Len(seq) : seq[k] = x

RECURSIVE Join(_, _)
Join(strs, sep) ==
    IF Len(strs) = 0 THEN ""
    ELSE IF Len(strs) = 1 THEN strs[1]
    ELSE strs[1] \o sep \o Join(Tail(strs), sep)

-----------------------------------------------------------------------------
(* Syntax nodes (estree) *)

NoNode == [type |-> "undefined"]

Id(n) == [type |-> "Identifier", name |-> n]
Lit(raw) == [type |-> "Literal", raw |-> raw]
Mem(o, p) == [type |-> "MemberExpression", object |-> o, property |-> Id(p)]
Call(c, as) == [type |-> "CallExpression", callee |-> c, arguments |-> as]
New(c, as) == [type |-> "NewExpression", callee |-> c, arguments |-> as]
Asg(l, r) == [type |-> "AssignmentExpression", left |-> l, right |-> r]
Bin(l, r) == [type |-> "BinaryExpression", left |-> l, right |-> r]
Cond(t, c, a) ==
    [type |-> "ConditionalExpression", test |-> t, consequent |-> c, alternate |-> a]
SeqE(es) == [type |-> "SequenceExpression", expressions |-> es]
Tpl(es) == [type |-> "TemplateLiteral", expressions |-> es]
Unary(a) == [type |-> "UnaryExpression", argument |-> a]
Spread(a) == [type |-> "SpreadElement", argument |-> a]
Fn == [type |-> "FunctionExpression"]
Arr(es) == [type |-> "ArrayExpression", elements |-> es]
Obj(v) == [type |-> "ObjectExpression", value |-> v]
Arrow(b) == [type |-> "ArrowFunctionExpression", body |-> b]
This == [type |-> "ThisExpression"]

Declarator(n, init) == [id |-> Id(n), init |-> init]
VarDecl(ds) == [type |-> "VariableDeclaration", declarations |-> ds]
ExprStmt(e) == [type |-> "ExpressionStatement", expression |-> e]
FunDecl(n, ps) == [type |-> "FunctionDeclaration", id |-> n, params |-> ps]
Block == [type |-> "BlockStatement"]
While(t, b) == [type |-> "WhileStatement", test |-> t, body |-> b]
Return(a) == [type |-> "ReturnStatement", argument |-> a]
ClassDecl(n, b) == [type |-> "ClassDeclaration", id |-> n, body |-> b]

\* escodegen.generate: the text of a node (a template literal's backquotes are
\* written as double quotes: a TLA+ string cannot hold a backquote)
RECURSIVE generate(_)
RECURSIVE generateList(_)
generateList(es) ==
    IF Len(es) = 0 THEN <<>> ELSE <<generate(es[1])>> \o generateList(Tail(es))

RECURSIVE generateTemplate(_)
generateTemplate(es) ==
    IF Len(es) = 0 THEN ""
    ELSE "${" \o generate(es[1]) \o "}" \o generateTemplate(Tail(es))

generate(n) ==
    CASE n.type = "Identifier" -> n.name
      [] n.type = "Literal" -> n.raw
      [] n.type = "MemberExpression" -> generate(n.object) \o "." \o generate(n.property)
      [] n.type = "CallExpression" ->
            generate(n.callee) \o "(" \o Join(generateList(n.arguments), ", ") \o ")"
      [] n.type = "NewExpression" ->
            "new " \o generate(n.callee) \o "(" \o Join(generateList(n.arguments), ", ") \o ")"
      [] n.type = "AssignmentExpression" -> generate(n.left) \o " = " \o generate(n.right)
      [] n.type = "BinaryExpression" -> generate(n.left) \o " + " \o generate(n.right)
      [] n.type = "ConditionalExpression" ->
            generate(n.test) \o " ? " \o generate(n.consequent) \o " : " \o generate(n.alternate)
      [] n.type = "SequenceExpression" -> Join(generateList(n.expressions), ", ")
      [] n.type = "TemplateLiteral" -> "\"" \o generateTemplate(n.expressions) \o "\""
      [] n.type = "UnaryExpression" -> "!" \o generate(n.argument)
      [] n.type = "SpreadElement" -> "..." \o generate(n.argument)
      [] n.type = "FunctionExpression" -> "function () {}"
      [] n.type = "ArrayExpression" -> "[" \o Join(generateList(n.elements), ", ") \o "]"
      [] n.type = "ObjectExpression" -> "{ a: " \o generate(n.value) \o " }"
      [] n.type = "ArrowFunctionExpression" -> "() => " \o generate(n.body)
      [] n.type = "ThisExpression" -> "this"
      [] OTHER -> ""

-----------------------------------------------------------------------------
(* Classifiers *)

BASE_SOURCES ==
    <<"document.URL", "document.documentURI", "document.URLUnencoded",
      "document.baseURI", "location.search", "document.cookie", "document.referrer">>

isBaseSource(id) == Includes(BASE_SOURCES, id)

\* /(?:document\.domain|innerHTML|outerHTML|insertAdjacentHTML|onevent)$/
SINK_VARIABLE ==
    [flags |-> "", anchored |-> TRUE,
     alternatives |->
        <<"document.domain", "innerHTML", "outerHTML", "insertAdjacentHTML", "onevent">>]

\* faulty variant: the pattern carries the g flag
SINK_FUNCTION_Global ==
    [flags |-> "g", anchored |-> FALSE,
     alternatives |-> <<"document.writeIn", "document.write">>]

\* /document\.write(In)?/  (the optional group is greedy: tried first)
SINK_FUNCTION ==
    [flags |-> "", anchored |-> FALSE,
     alternatives |-> <<"document.writeIn", "document.write">>]

\* where alternative w of a pattern matches input at or after position from (0: nowhere)
MatchStart(anchored, w, input, from) ==
    IF anchored
    THEN (IF EndsWith(input, w) /\ Len(input) - Len(w) + 1 >= from
          THEN Len(input) - Len(w) + 1 ELSE 0)
    ELSE IndexOf(input, w, from)

\* RegExp.prototype.test: [matched, lastIndex].  Without the g flag the search
\* starts at the beginning of the input and lastIndex is left as it is; with it
\* the search starts at lastIndex, which then moves past the match or back to 0.
RegExpTest(re, li, input) ==
    LET global == re.flags = "g"
        from   == IF global THEN li + 1 ELSE 1
        alts   == re.alternatives
        start(k) == MatchStart(re.anchored, alts[k], input, from)
        hits   == {k \in 1..Len(alts) : start(k) # 0}
        first  == CHOOSE k \in hits :
                    \A j \in hits : start(k) < start(j) \/ (start(k) = start(j) /\ k <= j)
    IN  [matched |-> hits # {},
         lastIndex |-> IF ~global THEN li
                       ELSE IF hits = {} THEN 0
                       ELSE start(first) + Len(alts[first]) - 1]

isSinkVariable(input, li) == RegExpTest(SINK_VARIABLE, li, input)

isSinkFunction(input, li) == RegExpTest(SINK_FUNCTION, li, input)

-----------------------------------------------------------------------------
(* Scope (src/scopes.ts).  scs is the arena, i the index of `this`. *)

NewScope(parent) ==
    [variables |-> <<>>, sinks |-> <<>>, sinked |-> <<>>,
     parent |-> parent, children |-> <<>>]

\* faulty variant: the new scope is not linked to its parent
Construct_Orphan(scs, parent) == Append(scs, NewScope(0))

\* new Scope(parent): the arena with the new scope appended and, when there is a
\* parent, the new scope pushed on the parent's children
Construct(scs, parent) ==
    LET n == Len(scs) + 1
        linked == IF parent = 0 THEN scs
                  ELSE [scs EXCEPT ![parent].children = Append(@, n)]
    IN  Append(linked, NewScope(parent))

Has(map, id) == id \in DOMAIN map

Put(map, id, v) == (id :> v) @@ map

RECURSIVE isSource(_, _, _)
\* faulty variant: the base sources are looked up last, at the root
isSource_LocalFirst(scs, i, id) ==
    IF Has(scs[i].variables, id) THEN scs[i].variables[id].isSource
    ELSE IF scs[i].parent # 0 THEN isSource(scs, scs[i].parent, id)
    ELSE isBaseSource(id)

\* faulty variant: a local variable that is not tainted does not end the lookup
isSource_FallThrough(scs, i, id) ==
    IF isBaseSource(id) THEN TRUE
    ELSE IF Has(scs[i].variables, id) /\ scs[i].variables[id].isSource THEN TRUE
    ELSE IF scs[i].parent # 0 THEN isSource(scs, scs[i].parent, id)
    ELSE FALSE

isSource(scs, i, id) ==
    IF isBaseSource(id) THEN TRUE
    ELSE IF Has(scs[i].variables, id) THEN scs[i].variables[id].isSource
    ELSE IF scs[i].parent # 0 THEN isSource(scs, scs[i].parent, id)
    ELSE FALSE

RECURSIVE markSource(_, _, _, _, _, _)
\* faulty variant: the controllers are not recorded
markSource_NoControllers(scs, i, id, sources, node, isArg) ==
    IF Has(scs[i].variables, id)
    THEN [scs EXCEPT ![i].variables =
            Put(@, id, [@[id] EXCEPT !.isSource = TRUE, !.node = node,
                                     !.isFunctionArg = isArg])]
    ELSE IF scs[i].parent # 0 THEN markSource(scs, scs[i].parent, id, sources, node, isArg)
    ELSE scs

\* faulty variant: a name that no scope owns becomes a tainted variable of the root
markSource_Create(scs, i, id, sources, node, isArg) ==
    IF Has(scs[i].variables, id) \/ scs[i].parent = 0
    THEN [scs EXCEPT ![i].variables =
            Put(@, id, [identifier |-> id, isSource |-> TRUE, node |-> node,
                        controllers |-> sources, isFunctionArg |-> isArg])]
    ELSE markSource(scs, scs[i].parent, id, sources, node, isArg)

markSource(scs, i, id, sources, node, isArg) ==
    IF Has(scs[i].variables, id)
    THEN [scs EXCEPT ![i].variables =
            Put(@, id, [@[id] EXCEPT !.isSource = TRUE, !.node = node,
                                     !.controllers = sources, !.isFunctionArg = isArg])]
    ELSE IF scs[i].parent # 0 THEN markSource(scs, scs[i].parent, id, sources, node, isArg)
    ELSE scs

RECURSIVE markSinked(_, _, _)
\* faulty variant: a tainted name is credited to the scope the call is made on
markSinked_Local(scs, i, id) ==
    IF isSource(scs, i, id) /\ ~isBaseSource(id)
    THEN [scs EXCEPT ![i].sinked = Append(@, id)]
    ELSE scs

markSinked(scs, i, id) ==
    IF Has(scs[i].variables, id) /\ scs[i].variables[id].isSource
    THEN [scs EXCEPT ![i].sinked = Append(@, id)]
    ELSE IF scs[i].parent # 0 THEN markSinked(scs, scs[i].parent, id)
    ELSE scs

\* faulty variant: a profile that is already registered is kept
markSink_Keep(scs, i, id, argList) ==
    IF Has(scs[i].sinks, id) THEN scs ELSE [scs EXCEPT ![i].sinks = Put(@, id, argList)]

markSink(scs, i, id, argList) ==
    [scs EXCEPT ![i].sinks = Put(@, id, argList)]

RECURSIVE findSink(_, _, _)
findSink(scs, i, id) ==
    IF Has(scs[i].sinks, id) THEN scs[i].sinks[id]
    ELSE IF scs[i].parent # 0 THEN findSink(scs, scs[i].parent, id)
    ELSE <<>>

createVariable(scs, i, identifier, isFunctionArg) ==
    [scs EXCEPT ![i].variables =
        Put(@, identifier, [identifier |-> identifier, isSource |-> FALSE,
                            controllers |-> <<>>, isFunctionArg |-> isFunctionArg,
                            node |-> NoNode])]

-----------------------------------------------------------------------------
(* Analyzer: expressions (src/engine.ts).  An evaluation reads and writes   *)
(* the scopes, prints findings and uses the two patterns: st holds the      *)
(* arena, the findings printed by this step and the patterns' lastIndex.    *)
(* sc is this.scope.  The result is [sources, st].                          *)

Ret(sources, st) == [sources |-> sources, st |-> st]

Finding(sources, sink, node) == [sources |-> sources, sink |-> sink, node |-> node]

RECURSIVE markSinkedAll(_, _, _)
markSinkedAll(scs, i, sources) ==
    IF Len(sources) = 0 THEN scs
    ELSE markSinkedAll(markSinked(scs, i, sources[1]), i, Tail(sources))

report(sources, sink, node, sc, st) ==
    [st EXCEPT !.arena = markSinkedAll(@, sc, sources),
               !.out = Append(@, Finding(sources, sink, node))]

RECURSIVE expression(_, _, _)
RECURSIVE expressions(_, _, _)
RECURSIVE argumentSources(_, _, _)
RECURSIVE checkMarkedArgs(_, _, _, _, _, _)

\* expr.expressions.map(e => this.expression(e)).flat()
expressions(es, sc, st) ==
    IF Len(es) = 0 THEN Ret(<<>>, st)
    ELSE LET h == expression(es[1], sc, st)
             t == expressions(Tail(es), sc, h.st)
         IN  Ret(h.sources \o t.sources, t.st)

\* faulty variant: spread arguments are evaluated like the others
argumentSources_Spread(as, sc, st) ==
    IF Len(as) = 0 THEN Ret(<<>>, st)
    ELSE LET h == IF as[1].type # "SpreadElement" THEN expression(as[1], sc, st)
                  ELSE expression(as[1].argument, sc, st)
             t == argumentSources(Tail(as), sc, h.st)
         IN  Ret(h.sources \o t.sources, t.st)

\* the taint of the arguments that are not spread elements, flattened
argumentSources(as, sc, st) ==
    IF Len(as) = 0 THEN Ret(<<>>, st)
    ELSE LET h == IF as[1].type # "SpreadElement" THEN expression(as[1], sc, st)
                  ELSE Ret(<<>>, st)
             t == argumentSources(Tail(as), sc, h.st)
         IN  Ret(h.sources \o t.sources, t.st)

newExpression(expr, sc, st) == argumentSources(expr.arguments, sc, st)

identifier(expr, sc, st) ==
    IF isSource(st.arena, sc, expr.name) THEN Ret(<<expr.name>>, st) ELSE Ret(<<>>, st)

memberExpression(expr, sc, st) ==
    LET o == IF expr.object.type # "Super" THEN expression(expr.object, sc, st)
             ELSE Ret(<<>>, st)
        p == IF expr.property.type # "PrivateIdentifier"
             THEN expression(expr.property, sc, o.st)
             ELSE Ret(<<>>, o.st)
        str == generate(expr)
    IN  Ret(o.sources \o p.sources \o
                (IF isSource(p.st.arena, sc, str) THEN <<str>> ELSE <<>>),
            p.st)

binaryExpression(expr, sc, st) ==
    LET l == expression(expr.left, sc, st)
        r == expression(expr.right, sc, l.st)
    IN  Ret(l.sources \o r.sources, r.st)

conditionalExpression(expr, sc, st) ==
    LET c == expression(expr.consequent, sc, st)
        a == expression(expr.alternate, sc, c.st)
    IN  Ret(c.sources \o a.sources, a.st)

\* faulty variant: every tainted assignment is reported, whatever its target
assignment_ReportAll(expr, sc, st) ==
    LET left == generate(expr.left)
        r    == expression(expr.right, sc, st)
        t    == isSinkVariable(left, r.st.lastIndex.SINK_VARIABLE)
        st1  == report(r.sources, left, expr, sc,
                       [r.st EXCEPT !.lastIndex.SINK_VARIABLE = t.lastIndex])
    IN  IF Len(r.sources) = 0 THEN Ret(<<>>, r.st)
        ELSE IF t.matched THEN Ret(<<>>, st1)
        ELSE Ret(<<left>>,
                 [st1 EXCEPT !.arena = markSource(@, sc, left, r.sources, expr, FALSE)])

\* faulty variant: an untainted value assigned to a local variable clears its taint
assignment_Untaint(expr, sc, st) ==
    LET left == generate(expr.left)
        r    == expression(expr.right, sc, st)
        t    == isSinkVariable(left, r.st.lastIndex.SINK_VARIABLE)
        st1  == [r.st EXCEPT !.lastIndex.SINK_VARIABLE = t.lastIndex]
    IN  IF Len(r.sources) = 0
        THEN Ret(<<>>, IF Has(r.st.arena[sc].variables, left)
                       THEN [r.st EXCEPT !.arena = createVariable(@, sc, left, FALSE)]
                       ELSE r.st)
        ELSE IF t.matched THEN Ret(<<>>, report(r.sources, left, expr, sc, st1))
        ELSE Ret(<<left>>,
                 [st1 EXCEPT !.arena = markSource(@, sc, left, r.sources, expr, FALSE)])

\* faulty variant: an assignment to a dangerous target passes its taint on
assignment_PassThrough(expr, sc, st) ==
    LET left == generate(expr.left)
        r    == expression(expr.right, sc, st)
        t    == isSinkVariable(left, r.st.lastIndex.SINK_VARIABLE)
        st1  == [r.st EXCEPT !.lastIndex.SINK_VARIABLE = t.lastIndex]
    IN  IF Len(r.sources) = 0 THEN Ret(<<>>, r.st)
        ELSE IF t.matched THEN Ret(r.sources, report(r.sources, left, expr, sc, st1))
        ELSE Ret(<<left>>,
                 [st1 EXCEPT !.arena = markSource(@, sc, left, r.sources, expr, FALSE)])

assignment(expr, sc, st) ==
    LET left == generate(expr.left)
        r    == expression(expr.right, sc, st)
        t    == isSinkVariable(left, r.st.lastIndex.SINK_VARIABLE)
        st1  == [r.st EXCEPT !.lastIndex.SINK_VARIABLE = t.lastIndex]
    IN  IF Len(r.sources) = 0 THEN Ret(<<>>, r.st)
        ELSE IF t.matched THEN Ret(<<>>, report(r.sources, left, expr, sc, st1))
        ELSE Ret(<<left>>,
                 [st1 EXCEPT !.arena = markSource(@, sc, left, r.sources, expr, FALSE)])

\* faulty variant: a finding for a marked argument is printed and its sources are
\* not credited
checkMarkedArgs_NoCredit(expr, i, markedArgs, callee, sc, st) ==
    IF i > Len(expr.arguments) THEN st
    ELSE IF expr.arguments[i].type = "SpreadElement"
    THEN checkMarkedArgs(expr, i + 1, markedArgs, callee, sc, st)
    ELSE LET a == expression(expr.arguments[i], sc, st)
             hit == /\ i <= Len(markedArgs)
                    /\ markedArgs[i] = TRUE
                    /\ Len(a.sources) > 0
         IN  checkMarkedArgs(expr, i + 1, markedArgs, callee, sc,
                             IF hit
                             THEN [a.st EXCEPT !.out = Append(@, Finding(a.sources, callee, expr))]
                             ELSE a.st)

\* the second pass over the arguments of a call: position i onwards
checkMarkedArgs(expr, i, markedArgs, callee, sc, st) ==
    IF i > Len(expr.arguments) THEN st
    ELSE IF expr.arguments[i].type = "SpreadElement"
    THEN checkMarkedArgs(expr, i + 1, markedArgs, callee, sc, st)
    ELSE LET a == expression(expr.arguments[i], sc, st)
             hit == /\ i <= Len(markedArgs)
                    /\ markedArgs[i] = TRUE
                    /\ Len(a.sources) > 0
         IN  checkMarkedArgs(expr, i + 1, markedArgs, callee, sc,
                             IF hit THEN report(a.sources, callee, expr, sc, a.st)
                             ELSE a.st)

callExpression(expr, sc, st) ==
    LET a == argumentSources(expr.arguments, sc, st)
        c == IF expr.callee.type # "Identifier" /\ expr.callee.type # "Super"
             THEN expression(expr.callee, sc, a.st)
             ELSE Ret(<<>>, a.st)
        sources == a.sources \o c.sources
        callee  == generate(expr.callee)
        t   == isSinkFunction(callee, c.st.lastIndex.SINK_FUNCTION)
        st1 == [c.st EXCEPT !.lastIndex.SINK_FUNCTION = t.lastIndex]
    IN  IF t.matched THEN Ret(sources, report(sources, callee, expr, sc, st1))
        ELSE Ret(sources,
                 checkMarkedArgs(expr, 1, findSink(st1.arena, sc, callee), callee, sc, st1))

expression(expr, sc, st) ==
    CASE expr.type = "Identifier" -> identifier(expr, sc, st)
      [] expr.type = "AssignmentExpression" -> assignment(expr, sc, st)
      [] expr.type = "CallExpression" -> callExpression(expr, sc, st)
      [] expr.type = "NewExpression" -> newExpression(expr, sc, st)
      [] expr.type = "TemplateLiteral" -> expressions(expr.expressions, sc, st)
      [] expr.type = "MemberExpression" -> memberExpression(expr, sc, st)
      [] expr.type \in {"UpdateExpression", "AwaitExpression", "UnaryExpression"} ->
            expression(expr.argument, sc, st)
      [] expr.type \in {"BinaryExpression", "LogicalExpression"} ->
            binaryExpression(expr, sc, st)
      [] expr.type = "ConditionalExpression" -> conditionalExpression(expr, sc, st)
      [] expr.type = "SequenceExpression" -> expressions(expr.expressions, sc, st)
      [] OTHER -> Ret(<<>>, st)

-----------------------------------------------------------------------------
(* Analyzer: statements *)

BlockEnd == [type |-> "BlockEnd"]

\* stmt.declarations.forEach(...), from declarator k onwards
RECURSIVE variableDeclaration(_, _, _, _)
variableDeclaration(stmt, k, sc, st) ==
    IF k > Len(stmt.declarations) THEN st
    ELSE LET declaration == stmt.declarations[k]
             id == declaration.id.name
             r  == IF declaration.init # NoNode THEN expression(declaration.init, sc, st)
                   ELSE Ret(<<>>, st)
             created == createVariable(r.st.arena, sc, id, FALSE)
             marked  == IF Len(r.sources) # 0
                        THEN markSource(created, sc, id, r.sources, stmt, FALSE)
                        ELSE created
         IN  IF declaration.id.type = "Identifier"
             THEN variableDeclaration(stmt, k + 1, sc, [r.st EXCEPT !.arena = marked])
             ELSE variableDeclaration(stmt, k + 1, sc, st)

RECURSIVE bindArgs(_, _, _, _)
\* faulty variant: the parameters are created and not marked
bindArgs_Unmarked(scs, i, args, node) ==
    IF Len(args) = 0 THEN scs
    ELSE bindArgs(createVariable(scs, i, args[1], TRUE), i, Tail(args), node)

\* args.forEach(arg => { createVariable(arg, true); markSource(arg, [], node, true) })
bindArgs(scs, i, args, node) ==
    IF Len(args) = 0 THEN scs
    ELSE bindArgs(markSource(createVariable(scs, i, args[1], TRUE), i, args[1], <<>>, node, TRUE),
                  i, Tail(args), node)

\* faulty variant: the profile is laid out along the sinked list, not along the parameters
argList_BySinked(args, sinked) == [k \in 1..Len(sinked) |-> Includes(args, sinked[k])]

\* args.map(arg => sinked.includes(arg))
argList(args, sinked) == [k \in 1..Len(args) |-> Includes(sinked, args[k])]

\* an assignment to a path that is no dangerous target, of an expression that
\* holds no call and no assignment
RECURSIVE SinkFree(_)
SinkFree(e) ==
    CASE e.type \in {"Identifier", "Literal", "FunctionExpression"} -> TRUE
      [] e.type = "MemberExpression" -> SinkFree(e.object)
      [] e.type = "BinaryExpression" -> SinkFree(e.left) /\ SinkFree(e.right)
      [] e.type \in {"NewExpression"} ->
            \A k \in 1..Len(e.arguments) : SinkFree(e.arguments[k])
      [] e.type = "TemplateLiteral" ->
            \A k \in 1..Len(e.expressions) : SinkFree(e.expressions[k])
      [] e.type \in {"UnaryExpression", "SpreadElement"} -> SinkFree(e.argument)
      [] OTHER -> FALSE

PlainAssignment(stmt) ==
    /\ stmt.type = "ExpressionStatement"
    /\ stmt.expression.type = "AssignmentExpression"
    /\ ~isSinkVariable(generate(stmt.expression.left), 0).matched
    /\ SinkFree(stmt.expression.right)

Start == [arena |-> arena, out |-> <<>>, lastIndex |-> lastIndex]

\* what a step leaves behind: the scopes, the findings it printed, the program so far
Commit(st, node) ==
    /\ arena' = st.arena
    /\ lastIndex' = st.lastIndex
    /\ emitted' = st.out
    /\ findings' = findings \o st.out
    /\ program' = Append(program, node)
    /\ steps' = IF node = BlockEnd THEN steps ELSE steps + 1
    /\ plain' = (plain /\ PlainAssignment(node))

\* statement(stmt), stmt an ExpressionStatement; at most bound statements are walked
ExpressionStatementWithin(menu, bound) ==
    \E e \in menu :
        /\ steps < bound
        /\ Commit(expression(e, scope, Start).st, ExprStmt(e))
        /\ UNCHANGED <<scope, stack, runs, cli>>

ExpressionStatement(menu) == ExpressionStatementWithin(menu, MaxSteps)

\* statement(stmt), stmt a VariableDeclaration
VariableDeclarationWithin(menu, bound) ==
    \E stmt \in menu :
        /\ steps < bound
        /\ Commit(variableDeclaration(stmt, 1, scope, Start), stmt)
        /\ UNCHANGED <<scope, stack, runs, cli>>

VariableDeclaration(menu) == VariableDeclarationWithin(menu, MaxSteps)

\* blockStatement up to the walk of the body: the new scope, the parameters bound
EnterWithin(node, args, isFunction, bound) ==
    /\ steps < bound
    /\ Len(stack) < MaxDepth
    /\ LET made == Construct(arena, scope)
           n    == Len(made)
       IN  /\ Commit([Start EXCEPT !.arena = IF isFunction THEN bindArgs(made, n, args, node)
                                             ELSE made],
                     node)
           /\ scope' = n
    /\ stack' = Append(stack, [prevScope |-> scope, node |-> node, args |-> args])
    /\ UNCHANGED <<runs, cli>>

Enter(node, args, isFunction) == EnterWithin(node, args, isFunction, MaxSteps)

\* statement(stmt), stmt a BlockStatement (also the body of an if, a loop, a try)
BlockStatement == Enter(Block, <<>>, FALSE)

\* functionDeclaration: the parameters rendered, then blockStatement(body, stmt, args)
FunctionDeclarationWithin(menu, bound) ==
    \E stmt \in menu : EnterWithin(stmt, generateList(stmt.params), TRUE, bound)

FunctionDeclaration(menu) == FunctionDeclarationWithin(menu, MaxSteps)

\* the end of blockStatement: the scope restored; for a function body, the end of
\* functionDeclaration: the profile registered in the restored scope
Leave ==
    /\ Len(stack) > 0
    /\ LET frame  == stack[Len(stack)]
           sinked == arena[scope].sinked
       IN  /\ scope' = frame.prevScope
           /\ Commit([Start EXCEPT !.arena =
                        IF frame.node.type = "FunctionDeclaration"
                        THEN markSink(@, frame.prevScope, frame.node.id,
                                      argList(frame.args, sinked))
                        ELSE @],
                     BlockEnd)
    /\ stack' = SubSeq(stack, 1, Len(stack) - 1)
    /\ UNCHANGED <<runs, cli>>

\* new Analyzer(source): a fresh root scope, nothing walked
Fresh ==
    /\ arena = <<NewScope(0)>>
    /\ scope = 1
    /\ stack = <<>>
    /\ findings = <<>>
    /\ emitted = <<>>
    /\ program = <<>>
    /\ steps = 0
    /\ plain = TRUE

Init ==
    /\ Fresh
    /\ lastIndex = [SINK_VARIABLE |-> 0, SINK_FUNCTION |-> 0]
    /\ runs = <<>>
    /\ argv = <<>>
    /\ cursor = 0
    /\ console = <<>>
    /\ calls = <<>>

-----------------------------------------------------------------------------
(* Programs: the statements the walked source units are made of *)

location_search == Mem(Id("location"), "search")
e_innerHTML == Mem(Id("e"), "innerHTML")
document_write == Mem(Id("document"), "write")
o_f == Mem(Id("o"), "f")

\* flows through variables, member paths and the built-in sinks
FlowStatements ==
    { Asg(e_innerHTML, Id("q")),
      Asg(e_innerHTML, o_f),
      Asg(e_innerHTML, Lit("'text'")),
      Asg(Mem(Call(Mem(Id("document"), "getElementById"), <<Lit("'reflect'")>>), "innerHTML"),
          Tpl(<<Id("q")>>)),
      Asg(Mem(Id("el"), "textContent"), location_search),
      Asg(o_f, location_search),
      Call(document_write, <<location_search>>),
      Call(document_write, <<Lit("'text'")>>),
      Call(Mem(Id("document"), "writeln"), <<Id("q"), Spread(location_search), Lit("'x'")>>) }

FlowDeclarations ==
    { VarDecl(<<Declarator("q", location_search)>>),
      VarDecl(<<Declarator("q",
                  Call(Mem(New(Id("URLSearchParams"), <<location_search>>), "get"),
                       <<Lit("'q'")>>))>>),
      VarDecl(<<Declarator("q", Lit("'safe'"))>>),
      VarDecl(<<Declarator("q", NoNode)>>),
      VarDecl(<<Declarator("write", location_search)>>) }

\* functions whose parameters reach a sink, and calls of them
FnFunctions ==
    { FunDecl("f", <<Id("x")>>),
      FunDecl("f", <<Id("y"), Id("x")>>) }

FnStatements ==
    { Asg(e_innerHTML, Id("x")),
      Asg(e_innerHTML, Id("y")),
      Call(Id("f"), <<location_search>>),
      Call(Id("f"), <<Lit("'text'")>>),
      Call(Id("f"), <<Lit("'text'"), location_search>>) }

FnDeclarations ==
    { VarDecl(<<Declarator("y", Id("x"))>>) }

Next ==
    \/ ExpressionStatement(FlowStatements)
    \/ VariableDeclaration(FlowDeclarations)
    \/ BlockStatement
    \/ Leave

NextFn ==
    \/ ExpressionStatement(FnStatements)
    \/ VariableDeclaration(FnDeclarations)
    \/ FunctionDeclaration(FnFunctions)
    \/ BlockStatement
    \/ Leave

SpecFn == Init /\ [][NextFn]_vars

\* assignments to variables, declared or not, assignments used as values, and sink
\* flows inside the arguments of other calls
AsgStatements ==
    { Asg(Id("q"), location_search),
      Asg(Id("q"), Lit("'safe'")),
      Asg(e_innerHTML, Id("q")),
      Call(Id("g"), <<Call(document_write, <<Id("q")>>)>>),
      Call(Id("g"), <<Asg(e_innerHTML, location_search)>>),
      Call(Id("g"), <<Call(Id("g"), <<Call(document_write, <<location_search>>)>>)>>) }

AsgDeclarations ==
    { VarDecl(<<Declarator("q", NoNode)>>),
      VarDecl(<<Declarator("q", location_search)>>),
      VarDecl(<<Declarator("v", Asg(e_innerHTML, location_search))>>),
      VarDecl(<<Declarator("v", Asg(Id("q"), location_search))>>) }

NextAsg ==
    \/ ExpressionStatement(AsgStatements)
    \/ VariableDeclaration(AsgDeclarations)
    \/ BlockStatement
    \/ Leave

SpecAsg == Init /\ [][NextAsg]_vars

\* a function that sinks its parameter, a function that passes its parameter on to
\* it, and calls of the second
ChainFunctions ==
    { FunDecl("f", <<Id("x")>>),
      FunDecl("g", <<Id("p")>>) }

ChainStatements ==
    { Asg(e_innerHTML, Id("x")),
      Call(Id("f"), <<Id("p")>>),
      Call(Id("g"), <<location_search>>),
      Call(Id("g"), <<Lit("'text'")>>) }

NextChain ==
    \/ ExpressionStatementWithin(ChainStatements, MaxChainSteps)
    \/ FunctionDeclarationWithin(ChainFunctions, MaxChainSteps)
    \/ Leave

SpecChain == Init /\ [][NextChain]_vars

\* a function body that uses, assigns and declares again the parameter
ParamFunctions ==
    { FunDecl("f", <<Id("x")>>),
      FunDecl("g", <<Id("p"), Id("x")>>) }

ParamStatements ==
    { Asg(e_innerHTML, Id("x")),
      Asg(e_innerHTML, Id("p")),
      Asg(Id("x"), location_search) }

ParamDeclarations ==
    { VarDecl(<<Declarator("x", NoNode)>>) }

NextParam ==
    \/ ExpressionStatement(ParamStatements)
    \/ VariableDeclaration(ParamDeclarations)
    \/ FunctionDeclaration(ParamFunctions)
    \/ BlockStatement
    \/ Leave

SpecParam == Init /\ [][NextParam]_vars

Spec == Init /\ [][Next]_vars

-----------------------------------------------------------------------------
(* Scope used directly: any sequence of calls of its methods on any scope *)

ScopeIds == {"q", "location.search", "document.cookie"}

ScopeCall(scs) ==
    /\ steps < MaxCalls
    /\ arena' = scs
    /\ steps' = steps + 1
    /\ UNCHANGED <<scope, stack, findings, emitted, program, plain, lastIndex, runs, cli>>

ScopeNew ==
    \E parent \in 1..Len(arena) :
        /\ Len(arena) <= MaxDepth
        /\ ScopeCall(Construct(arena, parent))

ScopeCreateVariable ==
    \E i \in 1..Len(arena), id \in ScopeIds, isFunctionArg \in BOOLEAN :
        ScopeCall(createVariable(arena, i, id, isFunctionArg))

ScopeMarkSource ==
    \E i \in 1..Len(arena), id \in ScopeIds :
        ScopeCall(markSource(arena, i, id, <<"document.cookie">>, NoNode, FALSE))

ScopeMarkSinked ==
    \E i \in 1..Len(arena), id \in ScopeIds : ScopeCall(markSinked(arena, i, id))

ScopeMarkSink ==
    \E i \in 1..Len(arena), profile \in {<<TRUE>>, <<FALSE>>} :
        ScopeCall(markSink(arena, i, "f", profile))

NextScope ==
    \/ ScopeNew
    \/ ScopeCreateVariable
    \/ ScopeMarkSource
    \/ ScopeMarkSinked
    \/ ScopeMarkSink

SpecScope == Init /\ [][NextScope]_vars

-----------------------------------------------------------------------------
(* A process analyzing several source units, one Analyzer after the other   *)
(* (src/unnamed/part_000): the module-level patterns outlive each analyzer. *)

RunStatements ==
    { Call(document_write, <<location_search>>),
      Asg(e_innerHTML, Id("q")) }

RunDeclarations ==
    { VarDecl(<<Declarator("q", location_search)>>) }

\* analyzer.run() walking one more top-level statement
RunStep ==
    /\ steps < MaxRunSteps
    /\ \/ ExpressionStatement(RunStatements)
       \/ VariableDeclaration(RunDeclarations)

\* run() returns; the loop goes on to the next file: new Analyzer(source)
NextFile ==
    /\ Len(stack) = 0
    /\ Len(runs) < MaxRuns
    /\ runs' = Append(runs, [source |-> program, findings |-> findings])
    /\ arena' = <<NewScope(0)>>
    /\ scope' = 1
    /\ stack' = <<>>
    /\ findings' = <<>>
    /\ emitted' = <<>>
    /\ program' = <<>>
    /\ steps' = 0
    /\ plain' = TRUE
    /\ UNCHANGED <<lastIndex, cli>>

NextRuns == RunStep \/ NextFile

SpecRuns == Init /\ [][NextRuns]_vars

-----------------------------------------------------------------------------
(* The command line program (src/unnamed/part_000): one Analyzer per file   *)
(* named on the command line.  The file system is the function Disk; what   *)
(* the program does to the outside is kept in calls and console.            *)

\* statement(stmt) for the statements of the files below; a block or a function
\* declaration is walked by Enter and Leave in the specifications above
RECURSIVE statement(_, _, _)
\* faulty variant: a while statement is walked like a do-while statement, a return
\* statement like an expression statement, a class like the statement in it
statement_Descend(stmt, sc, st) ==
    CASE stmt.type = "ExpressionStatement" -> expression(stmt.expression, sc, st).st
      [] stmt.type = "VariableDeclaration" -> variableDeclaration(stmt, 1, sc, st)
      [] stmt.type = "WhileStatement" ->
            statement(stmt.body, sc, expression(stmt.test, sc, st).st)
      [] stmt.type = "ReturnStatement" -> expression(stmt.argument, sc, st).st
      [] stmt.type = "ClassDeclaration" -> statement(stmt.body, sc, st)
      [] OTHER -> st

statement(stmt, sc, st) ==
    CASE stmt.type = "ExpressionStatement" -> expression(stmt.expression, sc, st).st
      [] stmt.type = "VariableDeclaration" -> variableDeclaration(stmt, 1, sc, st)
      [] OTHER -> st

\* this.program.forEach(stmt => this.statement(stmt)), from statement k onwards
RECURSIVE run(_, _, _)
run(body, k, st) ==
    IF k > Len(body) THEN st
    ELSE run(body, k + 1, statement(body[k], 1, st))

\* the lines report() prints for the findings fs
RECURSIVE printed(_)
printed(fs) ==
    IF Len(fs) = 0 THEN <<>>
    ELSE << "--------------------------------",
            generate(fs[1].node),
            "Controlled sources: " \o Join(fs[1].sources, ","),
            "Sink: " \o fs[1].sink >> \o printed(Tail(fs))

Paths == {"a.js", "b.js", "gone.js", "bad.js", "notes.txt"}

\* the files: gone.js cannot be read, bad.js is read but is not a script
Disk(filename) ==
    CASE filename = "a.js" ->
            [readable |-> TRUE, script |-> TRUE,
             body |-> <<ExprStmt(Call(document_write, <<location_search>>))>>]
      [] filename = "b.js" ->
            [readable |-> TRUE, script |-> TRUE,
             body |-> <<VarDecl(<<Declarator("q", location_search)>>),
                        ExprStmt(Asg(e_innerHTML, Id("q")))>>]
      [] filename = "gone.js" -> [readable |-> FALSE, script |-> FALSE, body |-> <<>>]
      [] OTHER -> [readable |-> TRUE, script |-> FALSE, body |-> <<>>]

CallOf(op, filename) == [op |-> op, filename |-> filename]

\* console.log(""); console.log(filename); analyzer.run(), st being the state
\* run() ends in
analyzed(filename, st) ==
    [thrown |-> FALSE,
     console |-> <<"", filename>> \o printed(st.out),
     lastIndex |-> st.lastIndex,
     calls |-> <<CallOf("readFileSync", filename), CallOf("parseScript", filename),
                 CallOf("run", filename)>>]

\* the try block for one file: what it calls and prints and whether it throws
tryBlock(filename, li) ==
    LET file == Disk(filename)
    IN  IF ~file.readable
        THEN [thrown |-> TRUE, console |-> <<>>, lastIndex |-> li,
              calls |-> <<CallOf("readFileSync", filename)>>]
        ELSE IF ~file.script
        THEN [thrown |-> TRUE, console |-> <<>>, lastIndex |-> li,
              calls |-> <<CallOf("readFileSync", filename), CallOf("parseScript", filename)>>]
        ELSE analyzed(filename, run(file.body, 1,
                        [arena |-> <<NewScope(0)>>, out |-> <<>>, lastIndex |-> li]))

\* faulty variant: the error is printed and thrown again
catchBlock_Rethrow(r) ==
    [r EXCEPT !.console = Append(@, "Error while reading file: ")]

\* catch (error) { console.log(...) }: the error is printed and goes no further
catchBlock(r) ==
    [r EXCEPT !.thrown = FALSE, !.console = Append(@, "Error while reading file: ")]

Invalid(filename) == "Invalid file: " \o filename \o ". Only .js files are supported."

\* try { ... } catch { ... }
settle(r) == IF r.thrown THEN catchBlock(r) ELSE r

\* the body of the loop for one file
loopBody(filename, li) ==
    IF ~EndsWith(filename, ".js")
    THEN [thrown |-> FALSE, console |-> <<Invalid(filename)>>, lastIndex |-> li,
          calls |-> <<>>]
    ELSE settle(tryBlock(filename, li))

\* the program starts: the usage line when no file is named, else the loop from i = 2
CliMain ==
    /\ cursor = 0
    /\ IF Len(argv) = 2
       THEN /\ console' = Append(console, "Usage: bun index.ts [filenames]")
            /\ cursor' = Len(argv) + 1
       ELSE /\ console' = console
            /\ cursor' = 3
    /\ UNCHANGED <<analyzer, lastIndex, runs, argv, calls>>

\* one turn of the loop; an error that leaves the loop body ends the program
CliFile ==
    /\ cursor >= 3
    /\ cursor <= Len(argv)
    /\ \E r \in {loopBody(argv[cursor], lastIndex)} :
           /\ console' = console \o r.console
           /\ calls' = calls \o r.calls
           /\ lastIndex' = r.lastIndex
           /\ cursor' = IF r.thrown THEN Len(argv) + 1 ELSE cursor + 1
    /\ UNCHANGED <<analyzer, runs, argv>>

InitCli ==
    /\ Fresh
    /\ lastIndex = [SINK_VARIABLE |-> 0, SINK_FUNCTION |-> 0]
    /\ runs = <<>>
    /\ \E n \in 0..MaxArgs : \E files \in [1..n -> Paths] :
            argv = <<"bun", "index.ts">> \o files
    /\ cursor = 0
    /\ console = <<>>
    /\ calls = <<>>

NextCli == CliMain \/ CliFile

SpecCli == InitCli /\ [][NextCli]_vars

-----------------------------------------------------------------------------
(* Syntax the walker has no case for *)

\* statement(stmt), stmt of a kind the switch has no case for
OtherStatement(menu) ==
    \E stmt \in menu :
        /\ steps < MaxSteps
        /\ Commit(statement(stmt, scope, Start), stmt)
        /\ UNCHANGED <<scope, stack, runs, cli>>

\* while (q = location.search) document.write(q);   return document.write(location.search);
\* class C { m() { q = location.search; } }
OpaqueStatements ==
    { While(Asg(Id("q"), location_search), ExprStmt(Call(document_write, <<Id("q")>>))),
      Return(Call(document_write, <<location_search>>)),
      ClassDecl("C", ExprStmt(Asg(Id("q"), location_search))) }

\* expressions of kinds that expression() has no case for, with tainted parts
OpaqueExpressions ==
    { Arr(<<location_search>>),
      Obj(location_search),
      Arrow(Call(document_write, <<location_search>>)),
      Arrow(Asg(Id("q"), location_search)),
      This, Fn, Lit("'text'") }

\* statements that hold such expressions, and flows that are seen
OpaqueExpressionStatements ==
    { Asg(e_innerHTML, Arr(<<location_search>>)),
      Asg(Id("q"), Obj(location_search)),
      Arrow(Call(document_write, <<location_search>>)),
      Asg(Id("q"), location_search),
      Asg(e_innerHTML, Id("q")) }

OpaqueDeclarations ==
    { VarDecl(<<Declarator("q", NoNode)>>),
      VarDecl(<<Declarator("q", Arrow(Asg(e_innerHTML, location_search)))>>) }

NextOpaque ==
    \/ ExpressionStatement(OpaqueExpressionStatements)
    \/ VariableDeclaration(OpaqueDeclarations)
    \/ OtherStatement(OpaqueStatements)
    \/ BlockStatement
    \/ Leave

SpecOpaque == Init /\ [][NextOpaque]_vars

-----------------------------------------------------------------------------
(* What the claims speak of *)

LastNode == IF Len(program) = 0 THEN NoNode ELSE program[Len(program)]

IsExpressionStatement(n, type) ==
    n.type = "ExpressionStatement" /\ n.expression.type = type

\* the dangerous assignment targets and the dangerous calls, as the spec lists them
DangerousTarget(path) ==
    \E w \in {"document.domain", "innerHTML", "outerHTML", "insertAdjacentHTML", "onevent"} :
        EndsWith(path, w)

DangerousCall(path) == IndexOf(path, "document.write", 1) # 0

\* the expression holds no call and no assignment
RECURSIVE NoCallOrAssignment(_)
NoCallOrAssignment(e) ==
    CASE e.type \in {"CallExpression", "AssignmentExpression"} -> FALSE
      [] e.type = "MemberExpression" -> NoCallOrAssignment(e.object)
      [] e.type = "BinaryExpression" -> NoCallOrAssignment(e.left) /\ NoCallOrAssignment(e.right)
      [] e.type = "NewExpression" ->
            \A k \in 1..Len(e.arguments) : NoCallOrAssignment(e.arguments[k])
      [] e.type = "TemplateLiteral" ->
            \A k \in 1..Len(e.expressions) : NoCallOrAssignment(e.expressions[k])
      [] e.type \in {"UnaryExpression", "SpreadElement"} -> NoCallOrAssignment(e.argument)
      [] OTHER -> TRUE

\* the expression holds no assignment
RECURSIVE NoAssignment(_)
NoAssignment(e) ==
    CASE e.type = "AssignmentExpression" -> FALSE
      [] e.type = "MemberExpression" -> NoAssignment(e.object)
      [] e.type = "BinaryExpression" -> NoAssignment(e.left) /\ NoAssignment(e.right)
      [] e.type \in {"NewExpression", "CallExpression"} ->
            /\ NoAssignment(e.callee)
            /\ \A k \in 1..Len(e.arguments) : NoAssignment(e.arguments[k])
      [] e.type = "TemplateLiteral" ->
            \A k \in 1..Len(e.expressions) : NoAssignment(e.expressions[k])
      [] e.type \in {"UnaryExpression", "SpreadElement"} -> NoAssignment(e.argument)
      [] OTHER -> TRUE

\* the taint set of an expression without assignments, read off the scopes scs from
\* scope sc by the propagation rules of the specification (section 4.4)
RECURSIVE Taint(_, _, _)
RECURSIVE TaintAll(_, _, _)
TaintAll(scs, sc, es) ==
    IF Len(es) = 0 THEN <<>>
    ELSE (IF es[1].type = "SpreadElement" THEN <<>> ELSE Taint(scs, sc, es[1]))
            \o TaintAll(scs, sc, Tail(es))

Taint(scs, sc, e) ==
    CASE e.type = "Identifier" -> IF isSource(scs, sc, e.name) THEN <<e.name>> ELSE <<>>
      [] e.type = "MemberExpression" ->
            Taint(scs, sc, e.object) \o Taint(scs, sc, e.property)
                \o (IF isSource(scs, sc, generate(e)) THEN <<generate(e)>> ELSE <<>>)
      [] e.type = "TemplateLiteral" -> TaintAll(scs, sc, e.expressions)
      [] e.type = "BinaryExpression" -> Taint(scs, sc, e.left) \o Taint(scs, sc, e.right)
      [] e.type = "UnaryExpression" -> Taint(scs, sc, e.argument)
      [] e.type = "NewExpression" -> TaintAll(scs, sc, e.arguments)
      [] e.type = "CallExpression" ->
            TaintAll(scs, sc, e.arguments)
                \o (IF e.callee.type = "Identifier" THEN <<>> ELSE Taint(scs, sc, e.callee))
      [] OTHER -> <<>>

\* the findings among fs that were printed for node
FindingsAt(fs, node) == SelectSeq(fs, LAMBDA f : f.node = node)

-----------------------------------------------------------------------------
(* Claims on flows into the built-in sinks (specification Spec) *)

\* the last step walked a call statement whose rendered callee is a dangerous call
\* and whose arguments hold no call and no assignment
DirectSinkStep ==
    /\ IsExpressionStatement(LastNode, "CallExpression")
    /\ DangerousCall(generate(LastNode.expression.callee))
    /\ \A k \in 1..Len(LastNode.expression.arguments) :
            NoCallOrAssignment(LastNode.expression.arguments[k])

\* C3 as stated: a direct sink call emits exactly one finding whose sources are the
\* concatenated taint sets of its non-spread arguments and whose sink is the
\* rendered callee
C3_ArgumentsOnly ==
    DirectSinkStep =>
        /\ Len(emitted) = 1
        /\ emitted[1].sources = TaintAll(arena, scope, LastNode.expression.arguments)
        /\ emitted[1].sink = generate(LastNode.expression.callee)

\* C3 amended: a direct sink call whose callee and arguments hold no call and no
\* assignment emits exactly one finding, at the call; its sources are the
\* concatenated taint sets of the non-spread arguments followed by the taint set
\* of the callee expression, and its sink is the rendered callee
C3_DirectSink ==
    (DirectSinkStep /\ NoCallOrAssignment(LastNode.expression.callee)) =>
        /\ Len(emitted) = 1
        /\ emitted[1].sources =
                TaintAll(arena, scope, LastNode.expression.arguments)
                    \o Taint(arena, scope, LastNode.expression.callee)
        /\ emitted[1].sink = generate(LastNode.expression.callee)
        /\ emitted[1].node = LastNode.expression

\* document.write(location.search) walked while a variable named write is tainted
C3_Witness ==
    /\ LastNode = ExprStmt(Call(document_write, <<location_search>>))
    /\ emitted = <<Finding(<<"location.search", "write">>, "document.write",
                           Call(document_write, <<location_search>>))>>

\* the step declares v (one declarator) with an initializer that holds no assignment
DeclaresStep(v, init) ==
    /\ LastNode'.type = "VariableDeclaration"
    /\ LastNode'.declarations = <<Declarator(v, init)>>
    /\ init # NoNode
    /\ NoAssignment(init)

\* the step assigns v, or a template literal interpolating v, to a dangerous target
SinksVariableStep(v) ==
    /\ IsExpressionStatement(LastNode', "AssignmentExpression")
    /\ DangerousTarget(generate(LastNode'.expression.left))
    /\ LastNode'.expression.right \in {Id(v), Tpl(<<Id(v)>>)}

Identifiers == {"q", "write", "x", "y", "o", "f"}

Initializers == {d.declarations[1].init : d \in FlowDeclarations}

\* C4: a declaration of v whose initializer has the non-empty taint set S leaves v
\* tainted in the declaring scope with controllers S; assigning a tainted variable v
\* to a dangerous target, in the same scope or a nested block, emits exactly one
\* finding, at the assignment, whose sources contain v
C4_IndirectSink ==
    [][\A v \in Identifiers :
        /\ \A init \in Initializers :
            (DeclaresStep(v, init) /\ Taint(arena, scope, init) # <<>>) =>
                /\ Has(arena'[scope'].variables, v)
                /\ arena'[scope'].variables[v].isSource
                /\ arena'[scope'].variables[v].controllers = Taint(arena, scope, init)
                /\ isSource(arena', scope', v)
        /\ (SinksVariableStep(v) /\ isSource(arena, scope, v)) =>
                /\ Len(emitted') = 1
                /\ Includes(emitted'[1].sources, v)
                /\ emitted'[1].sink = generate(LastNode'.expression.left)
                /\ emitted'[1].node = LastNode'.expression
      ]_vars

\* q, tainted at the top level through the sample's initializer, reaches innerHTML
\* inside a nested block
C4_Witness ==
    /\ Len(stack) > 0
    /\ Has(arena[1].variables, "q")
    /\ arena[1].variables["q"].isSource
    /\ arena[1].variables["q"].controllers = <<"location.search">>
    /\ arena[1].variables["q"].node.declarations[1].init.type = "CallExpression"
    /\ ~Has(arena[scope].variables, "q")
    /\ LastNode = ExprStmt(Asg(e_innerHTML, Id("q")))
    /\ emitted = <<Finding(<<"q">>, "e.innerHTML", Asg(e_innerHTML, Id("q")))>>

\* the last step assigned a tainted expression to a member path that is no dangerous
\* target
TaintsPathStep ==
    /\ IsExpressionStatement(LastNode, "AssignmentExpression")
    /\ LastNode.expression.left.type = "MemberExpression"
    /\ ~DangerousTarget(generate(LastNode.expression.left))
    /\ NoAssignment(LastNode.expression.right)
    /\ Taint(arena, scope, LastNode.expression.right) # <<>>

\* C5 as stated: after o.f = <tainted>, a read of o.f has a taint set containing
\* "o.f", so that e.innerHTML = o.f emits a finding
C5_PathRemembered ==
    TaintsPathStep =>
        LET path == generate(LastNode.expression.left)
            read == expression(LastNode.expression.left, scope, Start)
            sink == expression(Asg(e_innerHTML, LastNode.expression.left), scope, Start)
        IN  /\ Includes(read.sources, path)
            /\ Len(sink.st.out) > 0

\* the nearest scope on the chain from scope j to the root that holds a variable
\* named v (0: none)
RECURSIVE NearestOwner(_, _, _)
NearestOwner(scs, j, v) ==
    IF Has(scs[j].variables, v) THEN j
    ELSE IF scs[j].parent = 0 THEN 0
    ELSE NearestOwner(scs, scs[j].parent, v)

\* the step declares v, with no initializer or with an untainted one, in a scope one
\* of whose ancestors sees v tainted
ShadowStep(v) ==
    /\ LastNode'.type = "VariableDeclaration"
    /\ Len(LastNode'.declarations) = 1
    /\ LastNode'.declarations[1].id = Id(v)
    /\ LET init == LastNode'.declarations[1].init
       IN  init = NoNode \/ (NoAssignment(init) /\ Taint(arena, scope, init) = <<>>)
    /\ arena[scope].parent # 0
    /\ isSource(arena, arena[scope].parent, v)

\* in every scope whose nearest variable named v is not tainted, v is no source
ShadowInv ==
    \A j \in 1..Len(arena) : \A v \in Identifiers :
        LET i == NearestOwner(arena, j, v)
        IN  (i # 0 /\ ~arena[i].variables[v].isSource) => ~isSource(arena, j, v)

\* C6: declaring v untainted in a scope below one where v is tainted makes v a
\* non-source in the declaring scope and, as long as it stays untainted there, in
\* every scope below that does not declare v itself; v stays a source in the
\* ancestor and no variable of another scope is changed
C6_Shadowing ==
    [][/\ \A v \in Identifiers :
            ShadowStep(v) =>
                /\ ~isSource(arena', scope', v)
                /\ isSource(arena', arena[scope].parent, v)
                /\ \A i \in 1..Len(arena) :
                        i # scope => arena'[i].variables = arena[i].variables
       /\ ShadowInv'
      ]_vars

\* q tainted at the top level, declared untainted in a block, read in a block
\* nested in that block
C6_Witness ==
    /\ Len(stack) = 2
    /\ Has(arena[1].variables, "q") /\ arena[1].variables["q"].isSource
    /\ NearestOwner(arena, scope, "q") = arena[scope].parent
    /\ arena[scope].parent # 1
    /\ ~arena[arena[scope].parent].variables["q"].isSource
    /\ ~isSource(arena, scope, "q")
    /\ isSource(arena, 1, "q")

\* C7: an assignment whose rendered target is no dangerous assignment target emits
\* no finding for that assignment, and a program made only of such assignments of
\* call-free, assignment-free expressions has no finding at all
C7_Unmonitored ==
    /\ (/\ IsExpressionStatement(LastNode, "AssignmentExpression")
        /\ ~DangerousTarget(generate(LastNode.expression.left)))
            => FindingsAt(emitted, LastNode.expression) = <<>>
    /\ plain => findings = <<>>

\* el.textContent = location.search walked twice and nothing else
C7_Witness ==
    /\ LastNode = ExprStmt(Asg(Mem(Id("el"), "textContent"), location_search))
    /\ Len(program) = 2
    /\ plain
    /\ findings = <<>>

\* C8 as stated: the sources of every emitted finding are non-empty
C8_SourcesNonEmpty ==
    \A k \in 1..Len(findings) : Len(findings[k].sources) > 0

-----------------------------------------------------------------------------
(* Claims on derived sinks (specification SpecFn).  The claims speak of the *)
(* source text, so the declaration a call refers to and the statements of   *)
(* its body are read off the program as walked so far.                      *)

Opens(n) == n.type \in {"FunctionDeclaration", "BlockStatement"}

\* the positions of the blocks and function bodies still open after n entries
RECURSIVE OpenAt(_, _)
OpenAt(prog, n) ==
    IF n = 0 THEN <<>>
    ELSE LET s == OpenAt(prog, n - 1)
         IN  IF Opens(prog[n]) THEN Append(s, n)
             ELSE IF prog[n] = BlockEnd THEN SubSeq(s, 1, Len(s) - 1)
             ELSE s

\* the position of the block or function body that entry k is a statement of (0:
\* the top level)
Encl(prog, k) ==
    LET s == OpenAt(prog, k - 1) IN IF Len(s) = 0 THEN 0 ELSE s[Len(s)]

\* the position of the end of the block opened at a (0: still open)
Match(prog, a) ==
    LET ends == {b \in (a + 1)..Len(prog) : ~Includes(OpenAt(prog, b), a)}
    IN  IF ends = {} THEN 0 ELSE CHOOSE b \in ends : \A c \in ends : b <= c

\* the declaration of f that a call at the last entry refers to: the latest complete
\* declaration of f among the statements of the enclosing blocks (0: none)
Resolve(prog, f) ==
    LET chain == {0} \cup {OpenAt(prog, Len(prog) - 1)[k] :
                            k \in 1..Len(OpenAt(prog, Len(prog) - 1))}
        cands == {a \in 1..Len(prog) :
                    /\ prog[a].type = "FunctionDeclaration"
                    /\ prog[a].id = f
                    /\ Match(prog, a) # 0
                    /\ Encl(prog, a) \in chain}
    IN  IF cands = {} THEN 0 ELSE CHOOSE a \in cands : \A b \in cands : a >= b

\* entry k is a statement of the body of the function declared at a that declares v
Redeclares(prog, a, k, v) ==
    /\ Encl(prog, k) = a
    /\ prog[k].type = "VariableDeclaration"
    /\ \E d \in 1..Len(prog[k].declarations) : prog[k].declarations[d].id = Id(v)

\* entry k is a statement of that body assigning the variable v to a dangerous target
Sinks(prog, a, k, v) ==
    /\ Encl(prog, k) = a
    /\ IsExpressionStatement(prog[k], "AssignmentExpression")
    /\ DangerousTarget(generate(prog[k].expression.left))
    /\ prog[k].expression.right = Id(v)

\* the positions of the parameters of the function declared at a that a statement of
\* its body assigns to a dangerous target, the parameter not being declared again
\* in the body before
DirectSinkParams(prog, a) ==
    {i \in 1..Len(prog[a].params) :
        \E k \in (a + 1)..(Match(prog, a) - 1) :
            /\ Sinks(prog, a, k, generate(prog[a].params[i]))
            /\ \A j \in (a + 1)..(k - 1) :
                    ~Redeclares(prog, a, j, generate(prog[a].params[i]))}

\* the positions of the parameters that the body copies into a local variable which
\* it then assigns to a dangerous target
ViaLocalParams(prog, a) ==
    {i \in 1..Len(prog[a].params) :
        \E k1 \in (a + 1)..(Match(prog, a) - 1) : \E k2 \in (k1 + 1)..(Match(prog, a) - 1) :
            \E y \in Identifiers \ {generate(prog[a].params[i])} :
                /\ Encl(prog, k1) = a
                /\ prog[k1] = VarDecl(<<Declarator(y, prog[a].params[i])>>)
                /\ Sinks(prog, a, k2, y)
                /\ \A j \in (a + 1)..(k1 - 1) :
                        ~Redeclares(prog, a, j, generate(prog[a].params[i]))
                /\ \A j \in (k1 + 1)..(k2 - 1) : ~Redeclares(prog, a, j, y)}

\* the last step walked a call statement f(...) whose arguments hold no call and no
\* assignment, f being declared before
CallStep ==
    /\ IsExpressionStatement(LastNode, "CallExpression")
    /\ LastNode.expression.callee.type = "Identifier"
    /\ \A k \in 1..Len(LastNode.expression.arguments) :
            NoCallOrAssignment(LastNode.expression.arguments[k])
    /\ Resolve(program, LastNode.expression.callee.name) # 0

\* the call of the last step emitted a finding for its argument i, with the callee's
\* name as the sink
ReportedArgument(i) ==
    LET call == LastNode.expression
    IN  \E k \in 1..Len(emitted) :
            /\ emitted[k].node = call
            /\ emitted[k].sink = call.callee.name
            /\ emitted[k].sources = Taint(arena, scope, call.arguments[i])

TaintedArgument(i) ==
    LET call == LastNode.expression
    IN  /\ i <= Len(call.arguments)
        /\ call.arguments[i].type # "SpreadElement"
        /\ Taint(arena, scope, call.arguments[i]) # <<>>

\* C1: a call of f, walked after the declaration of f it refers to, emits a finding
\* at the call with sink f for every tainted argument whose parameter the body of f
\* assigns directly to a dangerous target, and no finding at the call when no
\* argument is tainted
C1_DerivedSink ==
    CallStep =>
        LET call == LastNode.expression
            a    == Resolve(program, call.callee.name)
        IN  /\ \A i \in DirectSinkParams(program, a) :
                    TaintedArgument(i) => ReportedArgument(i)
            /\ TaintAll(arena, scope, call.arguments) = <<>>
                    => FindingsAt(emitted, call) = <<>>

\* function f(y, x) { e.innerHTML = x; } { f('text', location.search); }
C1_Witness ==
    /\ Len(stack) = 1
    /\ LastNode = ExprStmt(Call(Id("f"), <<Lit("'text'"), location_search>>))
    /\ Resolve(program, "f") # 0
    /\ DirectSinkParams(program, Resolve(program, "f")) = {2}
    /\ emitted = <<Finding(<<"location.search">>, "f", LastNode.expression)>>

\* C2 as stated: the profile registered for f is true at the position of every
\* parameter that reaches a dangerous target in the body, directly or through a
\* local variable, and a later call with that argument tainted emits a finding
C2_ViaLocal ==
    /\ (LastNode = BlockEnd /\ Len(program) > 0) =>
            \A a \in 1..Len(program) :
                (program[a].type = "FunctionDeclaration" /\ Match(program, a) = Len(program)) =>
                    \A i \in DirectSinkParams(program, a) \cup ViaLocalParams(program, a) :
                        /\ Has(arena[scope].sinks, program[a].id)
                        /\ arena[scope].sinks[program[a].id][i] = TRUE
    /\ CallStep =>
            \A i \in DirectSinkParams(program, Resolve(program, LastNode.expression.callee.name))
                        \cup ViaLocalParams(program, Resolve(program, LastNode.expression.callee.name)) :
                TaintedArgument(i) => ReportedArgument(i)

\* the number of scopes above scope i
RECURSIVE ChainLen(_, _)
ChainLen(scs, i) == IF scs[i].parent = 0 THEN 0 ELSE 1 + ChainLen(scs, scs[i].parent)

\* the step walks one more entry of the program: a statement, the opening of a
\* block or function body, or the end of one
Walked == Len(program') = Len(program) + 1

\* the blocks and function bodies of the program that are open
OpenNow == OpenAt(program, Len(program))

\* C12: a statement that is no block leaves the current scope as it is and creates
\* no scope; entering a block or function body creates exactly one scope, child of
\* the scope current at entry, and makes it current; leaving it makes the parent
\* current again; no scope ever changes its parent; inside d open blocks the
\* current scope has d scopes above it, and with no block open it is the root
C12_ScopeBalance ==
    [][/\ Walked =>
            /\ (LastNode'.type \in {"ExpressionStatement", "VariableDeclaration"}) =>
                    /\ scope' = scope
                    /\ Len(arena') = Len(arena)
            /\ Opens(LastNode') =>
                    /\ Len(arena') = Len(arena) + 1
                    /\ scope' = Len(arena')
                    /\ arena'[scope'].parent = scope
                    /\ arena'[scope].children = Append(arena[scope].children, scope')
            /\ (LastNode' = BlockEnd) =>
                    /\ Len(arena') = Len(arena)
                    /\ scope' = arena[scope].parent
                    /\ scope' # 0
            /\ \A j \in 1..Len(arena) : arena'[j].parent = arena[j].parent
       /\ ChainLen(arena', scope') = Len(OpenAt(program', Len(program')))
       /\ (Len(OpenAt(program', Len(program'))) = 0) => arena'[scope'].parent = 0
      ]_vars

\* a function body with a block in it, both left again: three scopes, the root current
C12_Witness ==
    /\ Len(program) >= 4
    /\ program[1].type = "FunctionDeclaration"
    /\ program[2] = Block
    /\ LastNode = BlockEnd
    /\ OpenNow = <<>>
    /\ Len(arena) = 3
    /\ arena[3].parent = 2 /\ arena[2].parent = 1
    /\ scope = 1
    /\ arena[scope].parent = 0

\* the step walks a call statement f(...), f an identifier, whose arguments hold no
\* call and no assignment
NamedCallStep ==
    /\ Walked
    /\ IsExpressionStatement(LastNode', "CallExpression")
    /\ LastNode'.expression.callee.type = "Identifier"
    /\ \A k \in 1..Len(LastNode'.expression.arguments) :
            NoCallOrAssignment(LastNode'.expression.arguments[k])

\* the findings a call emits under profile prof, for its arguments from position i
\* onwards: one for each tainted argument at a position where the profile is true
RECURSIVE DerivedFindings(_, _, _, _, _)
DerivedFindings(call, prof, i, scs, sc) ==
    IF i > Len(call.arguments) THEN <<>>
    ELSE (IF /\ call.arguments[i].type # "SpreadElement"
             /\ i <= Len(prof)
             /\ prof[i] = TRUE
             /\ Taint(scs, sc, call.arguments[i]) # <<>>
          THEN <<Finding(Taint(scs, sc, call.arguments[i]), generate(call.callee), call)>>
          ELSE <<>>) \o DerivedFindings(call, prof, i + 1, scs, sc)

\* the nearest scope from j upwards that holds a profile for f (0: none)
RECURSIVE ProfileOwner(_, _, _)
ProfileOwner(scs, j, f) ==
    IF Has(scs[j].sinks, f) THEN j
    ELSE IF scs[j].parent = 0 THEN 0
    ELSE ProfileOwner(scs, scs[j].parent, f)

\* the profile registered for f before the step, as seen from the current scope
Registered(f) ==
    IF ProfileOwner(arena, scope, f) = 0 THEN <<>>
    ELSE arena[ProfileOwner(arena, scope, f)].sinks[f]

\* the step ends the body of a function declaration
EndsFunction ==
    /\ Walked
    /\ LastNode' = BlockEnd
    /\ Len(OpenNow) > 0
    /\ program[OpenNow[Len(OpenNow)]].type = "FunctionDeclaration"

\* the declaration whose body is the innermost open block
OpenFunction == program[OpenNow[Len(OpenNow)]]

\* the step walks a call of f inside the body of a declaration of f that is open
RecursiveCallStep ==
    /\ NamedCallStep
    /\ \E k \in 1..Len(OpenNow) :
            /\ program[OpenNow[k]].type = "FunctionDeclaration"
            /\ program[OpenNow[k]].id = LastNode'.expression.callee.name

\* C13 as stated: a call of f walked inside the body of f emits no finding with
\* sink f
C13_NoRecursiveFinding ==
    [][RecursiveCallStep => FindingsAt(emitted', LastNode'.expression) = <<>>]_vars

\* C13 amended: when the body of a declaration of f with n parameters ends, the
\* scope current before the declaration holds for f the sequence of length n that is
\* true where the parameter's name is in the body scope's sinked list, and nothing
\* else changes in any profile map; no other step changes a profile map; a call of
\* f emits exactly the findings the profile registered before gives, none when
\* nothing is registered, also when it is walked inside the body of f
C13_ProfileRegistration ==
    [][/\ EndsFunction =>
            LET f  == OpenFunction.id
                ps == OpenFunction.params
            IN  /\ scope' = arena[scope].parent
                /\ Has(arena'[scope'].sinks, f)
                /\ arena'[scope'].sinks[f] =
                        [k \in 1..Len(ps) |-> Includes(arena[scope].sinked, generate(ps[k]))]
                /\ \A j \in 1..Len(arena) :
                        /\ j # scope' => arena'[j].sinks = arena[j].sinks
                        /\ DOMAIN arena'[j].sinks \subseteq DOMAIN arena[j].sinks \cup {f}
                        /\ \A g \in DOMAIN arena[j].sinks :
                                g # f => arena'[j].sinks[g] = arena[j].sinks[g]
       /\ (Walked /\ ~EndsFunction) =>
            \A j \in 1..Len(arena) : arena'[j].sinks = arena[j].sinks
       /\ NamedCallStep =>
            FindingsAt(emitted', LastNode'.expression) =
                DerivedFindings(LastNode'.expression,
                                Registered(LastNode'.expression.callee.name),
                                1, arena, scope)
      ]_vars

\* function f(y, x) { e.innerHTML = x; f('text', location.search); } walked to its
\* end: the call inside the body emitted nothing, the profile is registered
C13_Witness ==
    /\ Len(program) = 4
    /\ program[1] = FunDecl("f", <<Id("y"), Id("x")>>)
    /\ program[2] = ExprStmt(Asg(e_innerHTML, Id("x")))
    /\ program[3] = ExprStmt(Call(Id("f"), <<Lit("'text'"), location_search>>))
    /\ program[4] = BlockEnd
    /\ Len(findings) = 1
    /\ arena[1].sinks["f"] = <<FALSE, TRUE>>
    /\ arena[2].sinks = <<>>

\* the nearest scope from j upwards in which v is a local variable that is tainted
\* (0: none)
RECURSIVE NearestTaintedOwner(_, _, _)
NearestTaintedOwner(scs, j, v) ==
    IF Has(scs[j].variables, v) /\ scs[j].variables[v].isSource THEN j
    ELSE IF scs[j].parent = 0 THEN 0
    ELSE NearestTaintedOwner(scs, scs[j].parent, v)

RECURSIVE SourcesOf(_)
SourcesOf(fs) == IF Len(fs) = 0 THEN <<>> ELSE fs[1].sources \o SourcesOf(Tail(fs))

SinkedNames == Identifiers \cup {"location.search"}

\* markSinked(v) called on scope j of scs changes what the claim says it changes
AttributedIn(scs) ==
    \A j \in 1..Len(scs) : \A v \in SinkedNames :
        LET o == NearestTaintedOwner(scs, j, v)
        IN  markSinked(scs, j, v) =
                IF o = 0 THEN scs ELSE [scs EXCEPT ![o].sinked = Append(@, v)]

\* C14: markSinked(id) appends id to the sinked list of the nearest scope, from the
\* scope it is called on to the root, in which id is a local tainted variable, and
\* changes nothing else, nothing at all when there is no such scope; a step that
\* assigns a tainted variable v to a dangerous target credits v to the nearest
\* scope that declares v (the function scope for a parameter used in a nested
\* block, the inner block for a variable that shadows the parameter) and to no
\* other; the profile position of a parameter is true exactly when its name was
\* credited to the function scope
C14_SinkAttribution ==
    [][/\ AttributedIn(arena')
       /\ (Walked /\ LastNode' # BlockEnd) =>
            \A j \in 1..Len(arena) :
                arena'[j].sinked =
                    arena[j].sinked \o
                        SelectSeq(SourcesOf(emitted'),
                                  LAMBDA v : NearestTaintedOwner(arena, scope, v) = j)
       /\ \A v \in Identifiers :
            (Walked /\ SinksVariableStep(v) /\ isSource(arena, scope, v)) =>
                LET o == NearestOwner(arena, scope, v)
                IN  /\ o # 0
                    /\ arena'[o].sinked = Append(arena[o].sinked, v)
                    /\ \A j \in 1..Len(arena) : j # o => arena'[j].sinked = arena[j].sinked
       /\ EndsFunction =>
            /\ \A j \in 1..Len(arena) : arena'[j].sinked = arena[j].sinked
            /\ \A k \in 1..Len(OpenFunction.params) :
                    arena'[scope'].sinks[OpenFunction.id][k] =
                        Includes(arena[scope].sinked, generate(OpenFunction.params[k]))
      ]_vars

\* function f(y, x) { { var y = x; e.innerHTML = y; } } walked to its end: the hit
\* is credited to the block, the profile of f is false at both positions
C14_Witness ==
    /\ program = << FunDecl("f", <<Id("y"), Id("x")>>), Block,
                    VarDecl(<<Declarator("y", Id("x"))>>),
                    ExprStmt(Asg(e_innerHTML, Id("y"))), BlockEnd, BlockEnd >>
    /\ Len(findings) = 1
    /\ arena[3].sinked = <<"y">>
    /\ arena[2].sinked = <<>>
    /\ arena[1].sinks["f"] = <<FALSE, FALSE>>

\* function f(x) { { e.innerHTML = x; } } walked to its end: the hit in the block
\* is credited to the function scope, the profile of f is true
C14_WitnessNested ==
    /\ program = << FunDecl("f", <<Id("x")>>), Block,
                    ExprStmt(Asg(e_innerHTML, Id("x"))), BlockEnd, BlockEnd >>
    /\ arena[3].sinked = <<>>
    /\ arena[2].sinked = <<"x">>
    /\ arena[1].sinks["f"] = <<TRUE>>

-----------------------------------------------------------------------------
(* Claims on the scopes themselves (specification SpecScope) *)

\* C9: in every scope, after any calls of createVariable, markSource, markSinked and
\* markSink on any scopes, isSource is true of each of the seven base-source paths
C9_BaseSources ==
    \A i \in 1..Len(arena) :
        \A path \in {"document.URL", "document.documentURI", "document.URLUnencoded",
                     "document.baseURI", "location.search", "document.cookie",
                     "document.referrer"} :
            isSource(arena, i, path)

\* a scope below the root holding an untainted variable named location.search
C9_Witness ==
    \E i \in 1..Len(arena) :
        /\ arena[i].parent # 0
        /\ Has(arena[i].variables, "location.search")
        /\ ~arena[i].variables["location.search"].isSource
        /\ isSource(arena, i, "location.search")

-----------------------------------------------------------------------------
(* Claims on independent runs (specification SpecRuns) *)

\* C10: analyzers built from the same source emit the same findings in the same
\* order, whatever was analyzed in between, and no run leaves anything behind in
\* the state the analyzers share
C10_Deterministic ==
    /\ \A i \in 1..Len(runs) : \A j \in 1..Len(runs) :
            runs[i].source = runs[j].source => runs[i].findings = runs[j].findings
    /\ \A i \in 1..Len(runs) :
            runs[i].source = program => runs[i].findings = findings
    /\ lastIndex = [SINK_VARIABLE |-> 0, SINK_FUNCTION |-> 0]

\* the same source analyzed first and third, another one in between
C10_Witness ==
    /\ Len(runs) = 2
    /\ runs[1].source = program
    /\ runs[2].source # program
    /\ Len(program) = 2
    /\ Len(findings) = 2
    /\ runs[2].findings # <<>>

-----------------------------------------------------------------------------
(* Claims on the command line program (specification SpecCli) *)

\* the file paths the loop has gone past
Handled == IF cursor < 3 THEN <<>> ELSE SubSeq(argv, 3, cursor - 1)

IsJs(filename) == EndsWith(filename, ".js")

\* the files that calls names for operation op, in order
FilesOf(op) ==
    LET hits == SelectSeq(calls, LAMBDA c : c.op = op)
    IN  [k \in 1..Len(hits) |-> hits[k].filename]

\* C11: the paths are handled in order; a path not ending in .js gets a diagnostic
\* and is never read; every path ending in .js the loop has gone past was read
\* exactly once, parsed if it could be read and run if it could be parsed, whatever
\* happened to the paths before it
C11_BatchContinuation ==
    /\ cursor <= Len(argv) + 1
    /\ FilesOf("readFileSync") = SelectSeq(Handled, IsJs)
    /\ FilesOf("parseScript") =
            SelectSeq(Handled, LAMBDA f : IsJs(f) /\ Disk(f).readable)
    /\ FilesOf("run") =
            SelectSeq(Handled, LAMBDA f : IsJs(f) /\ Disk(f).readable /\ Disk(f).script)
    /\ SelectSeq(console, LAMBDA line : IndexOf(line, "Invalid file: ", 1) = 1) =
            [k \in 1..Len(SelectSeq(Handled, LAMBDA f : ~IsJs(f))) |->
                Invalid(SelectSeq(Handled, LAMBDA f : ~IsJs(f))[k])]

\* a rejected path, an unreadable file and a file that does not parse, then a.js,
\* which is analyzed and has its finding printed
C11_Witness ==
    /\ argv = <<"bun", "index.ts", "notes.txt", "gone.js", "bad.js", "a.js">>
    /\ cursor = Len(argv) + 1
    /\ calls[Len(calls)] = CallOf("run", "a.js")
    /\ console[Len(console)] = "Sink: document.write"
    /\ Len(SelectSeq(console, LAMBDA line : line = "Error while reading file: ")) = 2

-----------------------------------------------------------------------------
(* Claims on assignments (specification SpecAsg) *)

AsgNames == {"q", "v"}

\* the step walks the statement left = right, left no dangerous target, right
\* tainted and free of assignments
TaintingStep ==
    /\ Walked
    /\ IsExpressionStatement(LastNode', "AssignmentExpression")
    /\ ~DangerousTarget(generate(LastNode'.expression.left))
    /\ NoAssignment(LastNode'.expression.right)
    /\ Taint(arena, scope, LastNode'.expression.right) # <<>>

\* markSource(id, ...) called on scope j of scs updates the variable id of the nearest
\* scope that owns id and nothing else, nothing at all when no scope owns it
BindsNothingIn(scs) ==
    \A j \in 1..Len(scs) : \A id \in AsgNames \cup {"o.f"} :
        LET o == NearestOwner(scs, j, id)
            r == markSource(scs, j, id, <<"document.cookie">>, NoNode, FALSE)
        IN  IF o = 0 THEN r = scs
            ELSE r = [scs EXCEPT ![o].variables =
                        [w \in DOMAIN @ |->
                            IF w = id
                            THEN [identifier |-> @[w].identifier, isSource |-> TRUE,
                                  controllers |-> <<"document.cookie">>,
                                  isFunctionArg |-> FALSE, node |-> NoNode]
                            ELSE @[w]]]

\* C15: markSource updates exactly the variable named id in the nearest scope that
\* owns id; an assignment of a tainted value to a name that no scope on the chain
\* owns leaves every scope as it was, the name stays a non-source, and assigning it
\* to a dangerous target afterwards emits no finding; an assignment to a name that
\* a scope owns taints that variable, with the right-hand taint as controllers,
\* and changes no other variable and no other scope
C15_NoBinding ==
    [][/\ BindsNothingIn(arena')
       /\ TaintingStep =>
            LET expr == LastNode'.expression
                id   == generate(expr.left)
                o    == NearestOwner(arena, scope, id)
            IN  IF o = 0
                THEN /\ arena' = arena
                     /\ ~isSource(arena', scope', id)
                     /\ expression(Asg(e_innerHTML, expr.left), scope',
                                   [arena |-> arena', out |-> <<>>,
                                    lastIndex |-> lastIndex']).st.out = <<>>
                ELSE /\ arena'[o].variables[id].isSource
                     /\ arena'[o].variables[id].controllers =
                            Taint(arena, scope, expr.right)
                     /\ \A j \in 1..Len(arena) :
                            /\ DOMAIN arena'[j].variables = DOMAIN arena[j].variables
                            /\ \A w \in DOMAIN arena[j].variables :
                                    (j # o \/ w # id) =>
                                        arena'[j].variables[w] = arena[j].variables[w]
                            /\ arena'[j].sinked = arena[j].sinked
                            /\ arena'[j].sinks = arena[j].sinks
       /\ \A v \in AsgNames :
            (Walked /\ SinksVariableStep(v) /\ NearestOwner(arena, scope, v) = 0) =>
                emitted' = <<>>
      ]_vars

\* q = location.search; e.innerHTML = q; with q never declared: no variable, no finding
C15_Witness ==
    /\ program = << ExprStmt(Asg(Id("q"), location_search)),
                    ExprStmt(Asg(e_innerHTML, Id("q"))) >>
    /\ arena = <<NewScope(0)>>
    /\ findings = <<>>

\* the sink flows written in expression e: the calls of a dangerous function and
\* the assignments to a dangerous target that have a tainted operand
RECURSIVE Flows(_, _, _)
RECURSIVE FlowsAll(_, _, _)
FlowsAll(es, scs, sc) ==
    IF Len(es) = 0 THEN 0 ELSE Flows(es[1], scs, sc) + FlowsAll(Tail(es), scs, sc)

Flows(e, scs, sc) ==
    CASE e.type = "CallExpression" ->
            FlowsAll(e.arguments, scs, sc)
                + (IF DangerousCall(generate(e.callee)) /\ TaintAll(scs, sc, e.arguments) # <<>>
                   THEN 1 ELSE 0)
      [] e.type = "AssignmentExpression" ->
            Flows(e.right, scs, sc)
                + (IF DangerousTarget(generate(e.left)) /\ Taint(scs, sc, e.right) # <<>>
                   THEN 1 ELSE 0)
      [] OTHER -> 0

\* how often v occurs in sequence q
Count(q, v) == Len(SelectSeq(q, LAMBDA w : w = v))

\* C17 as stated: a statement emits one finding for each sink flow written in it,
\* also when the flow is inside an argument of another call, and a step appends a
\* source at most once to a sinked list
C17_SingleEvaluation ==
    [][(Walked /\ IsExpressionStatement(LastNode', "CallExpression")) =>
            /\ Len(emitted') = Flows(LastNode'.expression, arena, scope)
            /\ \A j \in 1..Len(arena) : \A v \in AsgNames :
                    Count(arena'[j].sinked, v) <= Count(arena[j].sinked, v) + 1
      ]_vars

\* the step declares a variable (one declarator) or walks an assignment statement
Redeclaring(j, v) ==
    /\ j = scope
    /\ LastNode'.type = "VariableDeclaration"
    /\ \E d \in 1..Len(LastNode'.declarations) : LastNode'.declarations[d].id = Id(v)

\* C19: no step removes a variable from a scope, and no step makes a tainted
\* variable untainted, except a declaration of the same name walked in the same
\* scope; assigning an untainted value changes no scope at all
C19_TaintMonotone ==
    [][/\ \A j \in 1..Len(arena) : \A v \in DOMAIN arena[j].variables :
            /\ v \in DOMAIN arena'[j].variables
            /\ (arena[j].variables[v].isSource /\ ~(Walked /\ Redeclaring(j, v))) =>
                    arena'[j].variables[v].isSource
       /\ (/\ Walked
           /\ IsExpressionStatement(LastNode', "AssignmentExpression")
           /\ NoAssignment(LastNode'.expression.right)
           /\ Taint(arena, scope, LastNode'.expression.right) = <<>>) =>
                /\ arena' = arena
                /\ emitted' = <<>>
      ]_vars

\* var q = location.search; q = 'safe'; e.innerHTML = q: q is still tainted and the
\* assignment to innerHTML is reported
C19_Witness ==
    /\ program = << VarDecl(<<Declarator("q", location_search)>>),
                    ExprStmt(Asg(Id("q"), Lit("'safe'"))),
                    ExprStmt(Asg(e_innerHTML, Id("q"))) >>
    /\ arena[1].variables["q"].isSource
    /\ emitted = <<Finding(<<"q">>, "e.innerHTML", Asg(e_innerHTML, Id("q")))>>

AsgExpressions ==
    { Asg(e_innerHTML, location_search), Asg(e_innerHTML, Id("q")),
      Asg(Id("q"), location_search), Asg(Id("v"), Id("q")), Asg(o_f, Id("q")),
      Asg(Mem(Id("document"), "domain"), Tpl(<<Id("q")>>)) }

\* evaluated in scope sc of scs, each of the assignments above with a tainted right
\* side returns nothing and emits one finding when its target is dangerous, and
\* returns its rendered target and emits nothing when it is not
ConsumesIn(scs, sc, li) ==
    \A a \in AsgExpressions :
        LET r == assignment(a, sc, [arena |-> scs, out |-> <<>>, lastIndex |-> li])
            t == Taint(scs, sc, a.right)
        IN  t # <<>> =>
                IF DangerousTarget(generate(a.left))
                THEN /\ r.sources = <<>>
                     /\ r.st.out = <<Finding(t, generate(a.left), a)>>
                     /\ \A j \in 1..Len(scs) : r.st.arena[j].variables = scs[j].variables
                ELSE /\ r.sources = <<generate(a.left)>>
                     /\ r.st.out = <<>>

\* the step declares v with an assignment as its initializer, the right side of
\* which is tainted and holds no call and no assignment
DeclaresAssignmentStep(v) ==
    /\ Walked
    /\ LastNode'.type = "VariableDeclaration"
    /\ Len(LastNode'.declarations) = 1
    /\ LastNode'.declarations[1].id = Id(v)
    /\ LastNode'.declarations[1].init.type = "AssignmentExpression"
    /\ NoCallOrAssignment(LastNode'.declarations[1].init.right)
    /\ Taint(arena, scope, LastNode'.declarations[1].init.right) # <<>>

\* C20: an assignment of a tainted value to a dangerous target emits one finding,
\* returns the empty taint set and marks no variable, so a variable declared with
\* such an assignment as initializer is not tainted; an assignment of a tainted
\* value to any other path returns the one-element sequence of its rendered
\* target, so a variable declared with it is tainted with that path as controller
C20_SinkConsumes ==
    [][/\ ConsumesIn(arena', scope', lastIndex')
       /\ \A v \in AsgNames :
            DeclaresAssignmentStep(v) =>
                LET a == LastNode'.declarations[1].init
                IN  IF DangerousTarget(generate(a.left))
                    THEN /\ emitted' =
                                <<Finding(Taint(arena, scope, a.right), generate(a.left), a)>>
                         /\ Has(arena'[scope'].variables, v)
                         /\ ~arena'[scope'].variables[v].isSource
                         /\ ~isSource(arena', scope', v)
                    ELSE /\ emitted' = <<>>
                         /\ arena'[scope'].variables[v].isSource
                         /\ arena'[scope'].variables[v].controllers = <<generate(a.left)>>
      ]_vars

\* var v = (e.innerHTML = location.search) walked: one finding, v not tainted
C20_Witness ==
    /\ LastNode = VarDecl(<<Declarator("v", Asg(e_innerHTML, location_search))>>)
    /\ emitted = <<Finding(<<"location.search">>, "e.innerHTML",
                           Asg(e_innerHTML, location_search))>>
    /\ Has(arena[scope].variables, "v")
    /\ ~arena[scope].variables["v"].isSource

-----------------------------------------------------------------------------
(* Claims on parameters (specification SpecParam) and on functions calling  *)
(* functions (specification SpecChain)                                      *)

\* the scopes from the root down to scope i
RECURSIVE Chain(_, _)
Chain(scs, i) ==
    IF scs[i].parent = 0 THEN <<i>> ELSE Append(Chain(scs, scs[i].parent), i)

\* a statement of the block opened at a (0: the top level) declares v
DeclaredIn(prog, a, v) == \E j \in 1..Len(prog) : Redeclares(prog, a, j, v)

\* a statement walked after entry a assigns to the variable v
AssignedAfter(prog, a, v) ==
    \E j \in (a + 1)..Len(prog) :
        /\ IsExpressionStatement(prog[j], "AssignmentExpression")
        /\ prog[j].expression.left = Id(v)

\* the parameter as blockStatement binds it
Bound(p, fn) ==
    [identifier |-> p, isSource |-> TRUE, controllers |-> <<>>, isFunctionArg |-> TRUE,
     node |-> fn]

\* the last step assigned the parameter p of the function whose body is being
\* walked, not declared again in that body, to a dangerous target
SinksParameter(p) ==
    /\ IsExpressionStatement(LastNode, "AssignmentExpression")
    /\ DangerousTarget(generate(LastNode.expression.left))
    /\ LastNode.expression.right = Id(p)
    /\ Len(OpenNow) > 0
    /\ OpenFunction.type = "FunctionDeclaration"
    /\ Includes(generateList(OpenFunction.params), p)
    /\ ~DeclaredIn(program, OpenNow[Len(OpenNow)], p)

\* every variable of the current scope is a parameter of the function whose body
\* is being walked or is declared by a statement of the current block
OwnVariablesOnly ==
    LET a == IF Len(OpenNow) = 0 THEN 0 ELSE OpenNow[Len(OpenNow)]
    IN  \A v \in DOMAIN arena[scope].variables :
            \/ DeclaredIn(program, a, v)
            \/ /\ a # 0
               /\ program[a].type = "FunctionDeclaration"
               /\ Includes(generateList(program[a].params), v)

\* C16 as stated: while a function body is walked, each parameter that no statement
\* of the body declares again is the variable blockStatement bound: tainted, a
\* function argument, with no controllers
C16_BoundUntilRedeclared ==
    \A k \in 1..Len(OpenNow) :
        LET a  == OpenNow[k]
            sc == Chain(arena, scope)[k + 1]
        IN  program[a].type = "FunctionDeclaration" =>
                \A i \in 1..Len(program[a].params) :
                    LET p == generate(program[a].params[i])
                    IN  ~DeclaredIn(program, a, p) =>
                            /\ Has(arena[sc].variables, p)
                            /\ arena[sc].variables[p] = Bound(p, program[a])

\* C16 amended: while a function body is walked, each parameter that no statement
\* of the body declares again is a tainted local variable of the function scope,
\* and is a function argument with no controllers as long as nothing is assigned to
\* it; assigning such a parameter to a dangerous target emits a finding with the
\* parameter as its source, whether or not the function is called; a scope holds
\* only its own parameters and declared variables, so the parameters are not
\* variables of the outer scope afterwards
C16_ParametersTainted ==
    /\ \A k \in 1..Len(OpenNow) :
            LET a  == OpenNow[k]
                sc == Chain(arena, scope)[k + 1]
            IN  program[a].type = "FunctionDeclaration" =>
                    \A i \in 1..Len(program[a].params) :
                        LET p == generate(program[a].params[i])
                        IN  ~DeclaredIn(program, a, p) =>
                                /\ Has(arena[sc].variables, p)
                                /\ arena[sc].variables[p].isSource
                                /\ isSource(arena, sc, p)
                                /\ ~AssignedAfter(program, a, p) =>
                                        arena[sc].variables[p] = Bound(p, program[a])
    /\ \A p \in {"x", "p"} :
            SinksParameter(p) =>
                emitted = <<Finding(<<p>>, generate(LastNode.expression.left),
                                    LastNode.expression)>>
    /\ OwnVariablesOnly

\* function f(x) { e.innerHTML = x; } walked to its end and never called: the
\* finding was emitted, the root scope has no variable
C16_Witness ==
    /\ program = << FunDecl("f", <<Id("x")>>), ExprStmt(Asg(e_innerHTML, Id("x"))),
                    BlockEnd >>
    /\ findings = <<Finding(<<"x">>, "e.innerHTML", Asg(e_innerHTML, Id("x")))>>
    /\ arena[2].variables["x"] = Bound("x", FunDecl("f", <<Id("x")>>))
    /\ arena[1].variables = <<>>
    /\ ~isSource(arena, scope, "x")

\* the declaration that a call of f at entry j refers to
ResolveAt(prog, j, f) == Resolve(SubSeq(prog, 1, j), f)

\* the positions of the parameters of the function declared at a that a statement
\* of its body passes, the parameter not being declared again in the body before,
\* as argument i of a call of a function declared before whose body assigns its
\* parameter i directly to a dangerous target
PassedOnParams(prog, a) ==
    {k \in 1..Len(prog[a].params) :
        \E j \in (a + 1)..(Match(prog, a) - 1) :
            /\ Encl(prog, j) = a
            /\ IsExpressionStatement(prog[j], "CallExpression")
            /\ prog[j].expression.callee.type = "Identifier"
            /\ LET f  == prog[j].expression.callee.name
                   af == ResolveAt(prog, j, f)
               IN  /\ af # 0
                   /\ \E i \in DirectSinkParams(prog, af) :
                        /\ i <= Len(prog[j].expression.arguments)
                        /\ prog[j].expression.arguments[i] = prog[a].params[k]
            /\ \A d \in (a + 1)..(j - 1) :
                    ~Redeclares(prog, a, d, generate(prog[a].params[k]))}

\* C18: when the body of a function g ends that passes its parameter p as argument
\* i of a call of f, f having a profile that is true at i, the profile registered
\* for g is true at the position of p; a later call of g with a tainted argument at
\* that position emits a finding at the call, with g as the sink
C18_Transitive ==
    /\ (LastNode = BlockEnd /\ Len(program) > 0) =>
            \A a \in 1..Len(program) :
                (program[a].type = "FunctionDeclaration" /\ Match(program, a) = Len(program)) =>
                    \A k \in PassedOnParams(program, a) :
                        /\ Has(arena[scope].sinks, program[a].id)
                        /\ arena[scope].sinks[program[a].id][k] = TRUE
    /\ CallStep =>
            \A k \in PassedOnParams(program,
                                     Resolve(program, LastNode.expression.callee.name)) :
                TaintedArgument(k) => ReportedArgument(k)

\* function f(x) { e.innerHTML = x; } function g(p) { f(p); } g(location.search);
C18_Witness ==
    /\ program = << FunDecl("f", <<Id("x")>>), ExprStmt(Asg(e_innerHTML, Id("x"))),
                    BlockEnd,
                    FunDecl("g", <<Id("p")>>), ExprStmt(Call(Id("f"), <<Id("p")>>)),
                    BlockEnd,
                    ExprStmt(Call(Id("g"), <<location_search>>)) >>
    /\ arena[1].sinks["g"] = <<TRUE>>
    /\ emitted = <<Finding(<<"location.search">>, "g", Call(Id("g"), <<location_search>>))>>

\* the cases of the switch in statement() and of the switch in expression()
RecognizedStatements ==
    {"ExpressionStatement", "BlockStatement", "FunctionDeclaration", "DoWhileStatement",
     "ForStatement", "ForOfStatement", "ForInStatement", "IfStatement", "LabeledStatement",
     "SwitchStatement", "TryStatement", "VariableDeclaration"}

RecognizedExpressions ==
    {"Identifier", "AssignmentExpression", "CallExpression", "NewExpression",
     "TemplateLiteral", "MemberExpression", "UpdateExpression", "AwaitExpression",
     "UnaryExpression", "BinaryExpression", "LogicalExpression", "ConditionalExpression",
     "SequenceExpression"}

\* the node is a statement of no recognized kind, or an expression statement whose
\* expression is of no recognized kind
Opaque(node) ==
    \/ node.type \notin RecognizedStatements \cup {"BlockEnd", "undefined"}
    \/ /\ node.type = "ExpressionStatement"
       /\ node.expression.type \notin RecognizedExpressions

\* a step that walks such a statement
OpaqueStep ==
    /\ program' = Append(program, LastNode')
    /\ Opaque(LastNode')

\* C21: syntax of no recognized kind is taint-opaque and no error.  Walking a
\* statement of no recognized kind (while, return, class) leaves the current scope,
\* every scope's variables, profiles and sinked names, the open blocks and the
\* patterns as they were, and emits no finding although its children hold flows
\* from a source to a sink; in every state the walk reaches, evaluating an
\* expression of no recognized kind returns no sources and changes nothing; so
\* the statements walked next are walked as if the opaque one had not been there
C21_Opaque ==
    /\ [](\A e \in OpaqueExpressions :
            /\ e.type \notin RecognizedExpressions
            /\ expression(e, scope, Start) = Ret(<<>>, Start))
    /\ [][OpaqueStep =>
            /\ arena' = arena
            /\ scope' = scope
            /\ stack' = stack
            /\ lastIndex' = lastIndex
            /\ emitted' = <<>>
            /\ findings' = findings
            /\ steps' = steps + 1]_vars

\* var q; q = location.search; while (q = location.search) document.write(q);
\* e.innerHTML = q;   the while statement is passed over, the flow after it is found
C21_Witness ==
    /\ program = << VarDecl(<<Declarator("q", NoNode)>>),
                    ExprStmt(Asg(Id("q"), location_search)),
                    While(Asg(Id("q"), location_search),
                          ExprStmt(Call(document_write, <<Id("q")>>))),
                    ExprStmt(Asg(e_innerHTML, Id("q"))) >>
    /\ findings = <<Finding(<<"q">>, "e.innerHTML", Asg(e_innerHTML, Id("q")))>>
    /\ emitted = findings

====
